---- MODULE Spec2Model ----
(***************************************************************************)
(* Model of the bounded multi-producer / single-consumer channel of        *)
(* simple-channels: the lock-free ring buffer (src/mpsc/ring_buf.rs) and   *)
(* the Sender / Receiver handle pair built on it (src/mpsc/mod.rs).        *)
(*                                                                         *)
(* Every atomic load, store, compare-exchange and fetch_add of the code is *)
(* one step of the thread that executes it; threads interleave freely.     *)
(* Atomics are modelled sequentially consistent.  The non-atomic slot      *)
(* payload (UnsafeCell<MaybeUninit<T>>) is an ordinary cell: an access     *)
(* that overlaps another thread's unpublished claim on the same slot is a  *)
(* data race, and its outcome is a nondeterministic choice that includes   *)
(* the value Garbage.                                                      *)
(***************************************************************************)
EXTENDS Integers, Sequences, FiniteSets, TLC

\* ---------------------------------------------------------------- bounds
NProducers == 2          \* producer threads (one Sender handle each)
MaxSends   == 2          \* send calls started in a run, all producers together
MaxCapLog  == 1          \* capacities explored: 2^0 .. 2^MaxCapLog
CursorBits == 4          \* width of the head / tail cursors (usize, scaled)

CursorMod == 2 ^ CursorBits
Producers == 1 .. NProducers
Caps      == { 2 ^ k : k \in 0 .. MaxCapLog }

\* The values sent: the k-th send of producer p carries <<p, k>>.
Val(p, k) == <<p, k>>
Garbage   == <<0, 0>>    \* outcome of a racy / torn access to a slot payload
NoVal     == <<0, 1>>    \* MaybeUninit::uninit()

VARIABLES
    cap,        \* RingBuf.buf.len()
    head,       \* RingBuf.head
    tail,       \* RingBuf.tail
    empty,      \* Slot.empty, per slot index
    data,       \* Slot.data,  per slot index
    strong,     \* Arc strong count of the shared RingBuf
    sender,     \* per producer: "none" | "alive" | "dropped" Sender handle
    rxAlive,    \* the Receiver handle exists
    pc,         \* per producer: position inside send / push
    current_head, \* per producer: push's local of that name
    nsent,      \* per producer: send calls started so far
    quota,      \* send calls the producers may still start in this run
    rpc,        \* consumer: position inside recv / try_recv / pop
    rmode,      \* consumer: "recv" | "try_recv", the call whose failure path
                \*   (pop returned None) is in progress
    rval,       \* consumer: pop's local v
    \* ---- history of the calls (observations, no influence on the code)
    callClaims, \* per producer: head CAS successes of the call in progress
    callStores, \* per producer: slot stores (payload, flag) of that call
    late,       \* per producer: the call in progress started after the
                \*   Receiver was dropped
    lastSend,   \* outcome of the send call that returned in the last step
    sentOk,     \* values whose send returned Ok
    claimLog,   \* the value of each successful head CAS, in cursor order
    destructed, \* values dropped when the channel was destroyed
    received,   \* values returned by recv / try_recv, in order
    rxRes       \* outcome of the recv / try_recv call that returned in the
                \*   last step

vars == << cap, head, tail, empty, data, strong, sender, rxAlive, pc,
           current_head, nsent, quota, rpc, rmode, rval, callClaims,
           callStores, late, lastSend, sentOk, claimLog, destructed,
           received, rxRes >>

ring    == << cap, head, tail, empty, data >>
handles == << strong, sender, rxAlive, destructed >>
prodLoc == << pc, current_head, nsent, quota >>
consLoc == << rpc, rmode, rval >>
prodHist == << callClaims, callStores, late, sentOk, claimLog >>
consHist == << received >>

\* ------------------------------------------------------------- arithmetic
RECURSIVE BitAnd(_, _)
BitAnd(a, b) ==
    IF a = 0 \/ b = 0 THEN 0
    ELSE (a % 2) * (b % 2) + 2 * BitAnd(a \div 2, b \div 2)

WrappingAdd(a, n) == (a + n) % CursorMod
WrappingSub(a, b) == (a - b + CursorMod) % CursorMod

Mask == cap - 1
SlotOf(cursor) == BitAnd(cursor, Mask)

\* Mutant of IsFull: a ring holding exactly capacity values is not yet full.
IsFullStrict(h, tail_pos) == WrappingSub(h, tail_pos) > cap

\* Mutant of IsFull: the cursors are compared by magnitude, without the
\* wrapping subtraction.
IsFullByMagnitude(h, tail_pos) == h - tail_pos >= cap

\* current_head.wrapping_sub(tail_pos) >= self.buf.len()
IsFull(h, tail_pos) == WrappingSub(h, tail_pos) >= cap

\* Mutant of SoleHolder: the probe compares against the two handles that
\* bounded() creates instead of against one.
SoleHolderAtMostTwo(count) == count <= 2

\* Mutant of SoleHolder: the probe waits for the count to reach 0, which it
\* never does while the probing handle itself is alive.
SoleHolderNever(count) == count = 0

\* Arc::strong_count(&self.channel) == 1
SoleHolder(count) == count = 1

NoSend == [p |-> 0, kind |-> "None", arg |-> NoVal, val |-> NoVal,
           claims |-> 0, stores |-> 0, rx |-> TRUE, late |-> FALSE]
NoRecv == [kind |-> "None", mode |-> "recv", senders |-> {}]

\* A step in which no send returns / no recv or try_recv returns.
NoSendReturns == lastSend' = NoSend
NoRecvReturns == rxRes' = NoRecv

\* ------------------------------------------------------------------ Init
\* bounded(cap): all slots empty, cursors 0, one Sender and one Receiver;
\* the producers have n send calls ahead of them.
InitWith(n) ==
    /\ quota = n
    /\ cap \in Caps
    /\ head = 0
    /\ tail = 0
    /\ empty = [i \in 0 .. (cap - 1) |-> TRUE]
    /\ data = [i \in 0 .. (cap - 1) |-> NoVal]
    /\ strong = 2
    /\ sender = [p \in Producers |-> IF p = 1 THEN "alive" ELSE "none"]
    /\ rxAlive = TRUE
    /\ pc = [p \in Producers |-> "idle"]
    /\ current_head = [p \in Producers |-> 0]
    /\ nsent = [p \in Producers |-> 0]
    /\ rpc = "idle"
    /\ rmode = "recv"
    /\ rval = NoVal
    /\ callClaims = [p \in Producers |-> 0]
    /\ callStores = [p \in Producers |-> 0]
    /\ late = [p \in Producers |-> FALSE]
    /\ lastSend = NoSend
    /\ sentOk = {}
    /\ claimLog = << >>
    /\ destructed = {}
    /\ received = << >>
    /\ rxRes = NoRecv

Init == InitWith(MaxSends)

\* The same channel with one more send call, enough for one producer to
\* send twice while another is stalled inside a send.
InitLong == InitWith(MaxSends + 1)

\* ------------------------------------------------------- Sender handles
\* Sender::clone: Arc::clone increments the strong count.  The new handle
\* goes to the first producer thread that has none yet.
Clone(p, q) ==
    /\ sender[p] = "alive"
    /\ pc[p] = "idle"
    /\ sender[q] = "none"
    /\ \A r \in Producers : r < q => sender[r] # "none"
    /\ sender' = [sender EXCEPT ![q] = "alive"]
    /\ strong' = strong + 1
    /\ NoSendReturns /\ NoRecvReturns
    /\ UNCHANGED << ring, rxAlive, destructed, prodLoc, consLoc, prodHist,
                    consHist >>

\* Drop glue of one Slot<T>: the AtomicBool and the UnsafeCell<MaybeUninit<T>>.
\* MaybeUninit<T> never drops its content, and Slot has no Drop impl, so
\* dropping slot i destructs no value, whatever its flag says.
SlotDrop(i) == {}

\* Drop glue of RingBuf<T> (no Drop impl): buf: Box<[Slot<T>]> drops every
\* Slot; head, mask and tail hold no value.
RingBufDrop == UNION { SlotDrop(i) : i \in 0 .. (cap - 1) }

\* Arc::drop of one handle: the strong count is decremented, and the handle
\* that takes it to 0 drops the RingBuf.
ArcDrop ==
    /\ strong' = strong - 1
    /\ destructed' = IF strong - 1 = 0 THEN destructed \cup RingBufDrop
                                       ELSE destructed

\* drop(Sender): the Arc's strong count is decremented.
DropSender(p) ==
    /\ sender[p] = "alive"
    /\ pc[p] = "idle"
    /\ sender' = [sender EXCEPT ![p] = "dropped"]
    /\ ArcDrop
    /\ NoSendReturns /\ NoRecvReturns
    /\ UNCHANGED << ring, rxAlive, prodLoc, consLoc, prodHist, consHist >>

\* drop(Receiver)
DropReceiver ==
    /\ rxAlive
    /\ rpc = "idle"
    /\ rxAlive' = FALSE
    /\ ArcDrop
    /\ NoSendReturns /\ NoRecvReturns
    /\ UNCHANGED << ring, sender, prodLoc, consLoc, prodHist, consHist >>

\* ------------------------------------------------------------ Sender::send
\* The record of a send of value arg by p that returns Err(SendError(value)).
SendErr(p, arg, value, claims, stores, isLate) ==
    [p |-> p, kind |-> "Err", arg |-> arg, val |-> value,
     claims |-> claims, stores |-> stores, rx |-> rxAlive, late |-> isLate]

\* The record of a send of value arg by p that returns Ok(()).
SendOk(p, arg, claims, stores, isLate) ==
    [p |-> p, kind |-> "Ok", arg |-> arg, val |-> NoVal,
     claims |-> claims, stores |-> stores, rx |-> rxAlive, late |-> isLate]

\* send entry: the first liveness probe, before any push.
SendStart(p) ==
    /\ pc[p] = "idle"
    /\ sender[p] = "alive"
    /\ quota > 0
    /\ quota' = quota - 1
    /\ nsent' = [nsent EXCEPT ![p] = @ + 1]
    /\ LET value == Val(p, nsent[p] + 1)
       IN IF SoleHolder(strong)
            THEN /\ lastSend' = SendErr(p, value, value, 0, 0, ~rxAlive)
                 /\ UNCHANGED << pc, late >>
            ELSE /\ pc' = [pc EXCEPT ![p] = "push_load"]
                 /\ late' = [late EXCEPT ![p] = ~rxAlive]
                 /\ NoSendReturns
    /\ NoRecvReturns
    /\ UNCHANGED << ring, handles, current_head, consLoc, callClaims,
                    callStores, sentOk, claimLog, consHist >>

\* push: let current_head = self.head.load(Relaxed)
PushLoadHead(p) ==
    /\ pc[p] = "push_load"
    /\ current_head' = [current_head EXCEPT ![p] = head]
    /\ pc' = [pc EXCEPT ![p] = "push_flag"]
    /\ NoSendReturns /\ NoRecvReturns
    /\ UNCHANGED << ring, handles, nsent, quota, consLoc, prodHist, consHist >>

\* Mutant of PushCheckFlag: the flag is not consulted and push goes on to the
\* CAS whatever the slot holds.
PushCheckFlagIgnored(p) ==
    /\ pc[p] = "push_flag"
    /\ pc' = [pc EXCEPT ![p] = "push_cas"]
    /\ NoSendReturns /\ NoRecvReturns
    /\ UNCHANGED << ring, handles, current_head, nsent, quota, consLoc,
                    prodHist, consHist >>

\* push: if !slot.empty.load(Acquire)
PushCheckFlag(p) ==
    /\ pc[p] = "push_flag"
    /\ pc' = [pc EXCEPT ![p] =
                IF empty[SlotOf(current_head[p])] THEN "push_cas"
                                                  ELSE "push_tail"]
    /\ NoSendReturns /\ NoRecvReturns
    /\ UNCHANGED << ring, handles, current_head, nsent, quota, consLoc,
                    prodHist, consHist >>

\* push: the slot was occupied; load tail and return Err(value) (Full) or spin.
PushLoadTail(p) ==
    /\ pc[p] = "push_tail"
    /\ pc' = [pc EXCEPT ![p] =
                IF IsFull(current_head[p], tail) THEN "send_full"
                                                 ELSE "push_load"]
    /\ current_head' = [current_head EXCEPT ![p] = 0]    \* out of scope
    /\ NoSendReturns /\ NoRecvReturns
    /\ UNCHANGED << ring, handles, nsent, quota, consLoc, prodHist, consHist >>

\* push: self.head.compare_exchange(current_head, current_head + 1)
PushCAS(p) ==
    /\ pc[p] = "push_cas"
    /\ IF head = current_head[p]
         THEN /\ head' = WrappingAdd(current_head[p], 1)
              /\ pc' = [pc EXCEPT ![p] = "push_write"]
              /\ callClaims' = [callClaims EXCEPT ![p] = @ + 1]
              /\ claimLog' = Append(claimLog, Val(p, nsent[p]))
              /\ current_head' = current_head
         ELSE /\ head' = head
              /\ pc' = [pc EXCEPT ![p] = "push_load"]
              /\ callClaims' = callClaims
              /\ claimLog' = claimLog
              /\ current_head' = [current_head EXCEPT ![p] = 0]
                                                         \* out of scope
    /\ NoSendReturns /\ NoRecvReturns
    /\ UNCHANGED << cap, tail, empty, data, handles, nsent, quota, consLoc,
                    callStores, late, sentOk, consHist >>

\* The producer threads of the run.
Threads == DOMAIN pc

\* Producers that won the CAS for slot i and have not yet published it.
Claimants(i) ==
    { q \in Threads :
        /\ pc[q] \in {"push_write", "push_publish"}
        /\ SlotOf(current_head[q]) = i }

\* push: (*slot.data.get()).write(value) -- a plain, non-atomic store.  It
\* races when another producer holds an unpublished claim on the slot or the
\* consumer is about to read it.
PushWrite(p) ==
    /\ pc[p] = "push_write"
    /\ LET i == SlotOf(current_head[p])
           racy == \/ Claimants(i) \ {p} # {}
                   \/ rpc = "pop_read" /\ SlotOf(tail) = i
       IN \E w \in {Val(p, nsent[p])} \cup (IF racy THEN {Garbage} ELSE {}) :
             data' = [data EXCEPT ![i] = w]
    /\ pc' = [pc EXCEPT ![p] = "push_publish"]
    /\ callStores' = [callStores EXCEPT ![p] = @ + 1]
    /\ NoSendReturns /\ NoRecvReturns
    /\ UNCHANGED << cap, head, tail, empty, handles, current_head, nsent,
                    quota, consLoc, callClaims, late, sentOk, claimLog,
                    consHist >>

\* Mutant of PushPublish: send re-checks the strong count after the push
\* succeeded and reports the receiver-gone error for an enqueued value.
PushPublishPostCheck(p) ==
    /\ pc[p] = "push_publish"
    /\ empty' = [empty EXCEPT ![SlotOf(current_head[p])] = FALSE]
    /\ pc' = [pc EXCEPT ![p] = "idle"]
    /\ current_head' = [current_head EXCEPT ![p] = 0]
    /\ callClaims' = [callClaims EXCEPT ![p] = 0]
    /\ callStores' = [callStores EXCEPT ![p] = 0]
    /\ late' = [late EXCEPT ![p] = FALSE]
    /\ LET value == Val(p, nsent[p])
       IN IF SoleHolder(strong)
            THEN /\ lastSend' = SendErr(p, value, value, callClaims[p],
                                        callStores[p] + 1, late[p])
                 /\ sentOk' = sentOk
            ELSE /\ lastSend' = SendOk(p, value, callClaims[p],
                                       callStores[p] + 1, late[p])
                 /\ sentOk' = sentOk \cup {value}
    /\ NoRecvReturns
    /\ UNCHANGED << cap, head, tail, data, handles, nsent, quota, consLoc,
                    claimLog, consHist >>

\* push: slot.empty.store(false, Release); return Ok(()) -- send returns Ok.
PushPublish(p) ==
    /\ pc[p] = "push_publish"
    /\ empty' = [empty EXCEPT ![SlotOf(current_head[p])] = FALSE]
    /\ pc' = [pc EXCEPT ![p] = "idle"]
    /\ current_head' = [current_head EXCEPT ![p] = 0]
    /\ callClaims' = [callClaims EXCEPT ![p] = 0]
    /\ callStores' = [callStores EXCEPT ![p] = 0]
    /\ late' = [late EXCEPT ![p] = FALSE]
    /\ lastSend' = SendOk(p, Val(p, nsent[p]), callClaims[p],
                          callStores[p] + 1, late[p])
    /\ sentOk' = sentOk \cup {Val(p, nsent[p])}
    /\ NoRecvReturns
    /\ UNCHANGED << cap, head, tail, data, handles, nsent, quota, consLoc,
                    claimLog, consHist >>

\* send: push returned Err(v); after thread::yield_now() re-check the count.
SendReprobe(p) ==
    /\ pc[p] = "send_full"
    /\ IF SoleHolder(strong)
         THEN /\ lastSend' = SendErr(p, Val(p, nsent[p]), Val(p, nsent[p]),
                                     callClaims[p], callStores[p], late[p])
              /\ pc' = [pc EXCEPT ![p] = "idle"]
              /\ current_head' = [current_head EXCEPT ![p] = 0]
              /\ late' = [late EXCEPT ![p] = FALSE]
         ELSE /\ pc' = [pc EXCEPT ![p] = "push_load"]
              /\ NoSendReturns
              /\ UNCHANGED << current_head, late >>
    /\ NoRecvReturns
    /\ UNCHANGED << ring, handles, nsent, quota, consLoc, callClaims,
                    callStores, sentOk, claimLog, consHist >>

\* ----------------------------------------------- Receiver::recv / try_recv
\* Mutant of PopFlag: pop advances tail before it looks at the flag, so tail
\* moves also when the slot is empty.
PopFlagAdvance(mode) ==
    /\ rpc' = IF empty[SlotOf(tail)] THEN "probe" ELSE "pop_read"
    /\ rmode' = IF empty[SlotOf(tail)] THEN mode ELSE "recv"
    /\ tail' = IF empty[SlotOf(tail)] THEN WrappingAdd(tail, 1) ELSE tail
    /\ NoSendReturns /\ NoRecvReturns
    /\ UNCHANGED << cap, head, empty, data, handles, prodLoc, rval,
                    prodHist, consHist >>

\* pop: pos = tail.load(Relaxed) & mask; if slot.empty.load(Acquire).
\* tail is written by the consumer only, so its load is local to the flag
\* load.  On the success path recv and try_recv run the same code, and the
\* call being executed is kept only on the failure path.
PopFlag(mode) ==
    /\ rpc' = IF empty[SlotOf(tail)] THEN "probe" ELSE "pop_read"
    /\ rmode' = IF empty[SlotOf(tail)] THEN mode ELSE "recv"
    /\ NoSendReturns /\ NoRecvReturns
    /\ UNCHANGED << ring, handles, prodLoc, rval, prodHist, consHist >>

\* Entry of recv (mode "recv") or try_recv (mode "try_recv"), up to the
\* first shared access, the flag load of pop.
RecvStart(mode) ==
    /\ rpc = "idle"
    /\ rxAlive
    /\ PopFlag(mode)

\* recv: the pop of a later iteration of the loop, after thread::yield_now().
PopCheckFlag ==
    /\ rpc = "pop_flag"
    /\ PopFlag("recv")

\* pop: let v = (*slot.data.get()).assume_init_read() -- a plain load.  It
\* races when a producer holds an unpublished claim on the slot.
PopRead ==
    /\ rpc = "pop_read"
    /\ LET i == SlotOf(tail)
           racy == Claimants(i) # {}
       IN \E r \in {data[i]} \cup (IF racy THEN {Garbage} ELSE {}) :
             rval' = r
    /\ rpc' = "pop_clear"
    /\ NoSendReturns /\ NoRecvReturns
    /\ UNCHANGED << ring, handles, prodLoc, rmode, prodHist, consHist >>

\* pop: slot.empty.store(true, Release)
PopClear ==
    /\ rpc = "pop_clear"
    /\ empty' = [empty EXCEPT ![SlotOf(tail)] = TRUE]
    /\ rpc' = "pop_inc"
    /\ NoSendReturns /\ NoRecvReturns
    /\ UNCHANGED << cap, head, tail, data, handles, prodLoc, rmode, rval,
                    prodHist, consHist >>

\* pop: self.tail.fetch_add(1, Relaxed); Some(v) -- recv/try_recv return Ok(v).
PopInc ==
    /\ rpc = "pop_inc"
    /\ tail' = WrappingAdd(tail, 1)
    /\ rpc' = "idle"
    /\ rval' = NoVal
    /\ received' = Append(received, rval)
    /\ rxRes' = [kind |-> "Ok", mode |-> "recv", senders |-> {}]
    /\ NoSendReturns
    /\ UNCHANGED << cap, head, empty, data, handles, prodLoc, rmode,
                    prodHist >>

\* Mutant of RecvProbe: the strong count is not consulted; an empty pop is
\* reported as Disconnected at once.
RecvProbeNoCount ==
    /\ rpc = "probe"
    /\ rxRes' = [kind |-> "Disconnected", mode |-> rmode,
                 senders |-> { p \in Threads : sender[p] = "alive" }]
    /\ rpc' = "idle"
    /\ rmode' = "recv"
    /\ NoSendReturns
    /\ UNCHANGED << ring, handles, prodLoc, rval, prodHist, consHist >>

\* pop returned None: the strong-count probe of recv / try_recv.
RecvProbe ==
    /\ rpc = "probe"
    /\ LET live == { p \in Threads : sender[p] = "alive" }
       IN IF SoleHolder(strong)
            THEN /\ rxRes' = [kind |-> "Disconnected", mode |-> rmode,
                              senders |-> live]
                 /\ rpc' = "idle"
                 /\ rmode' = "recv"
            ELSE IF rmode = "try_recv"
                   THEN /\ rxRes' = [kind |-> "Empty", mode |-> rmode,
                                     senders |-> live]
                        /\ rpc' = "idle"
                        /\ rmode' = "recv"
                   ELSE /\ NoRecvReturns          \* thread::yield_now()
                        /\ rpc' = "pop_flag"
                        /\ rmode' = rmode
    /\ NoSendReturns
    /\ UNCHANGED << ring, handles, prodLoc, rval, prodHist, consHist >>

\* ------------------------------------------------------------------ Next
Next ==
    \/ \E p \in Producers, q \in Producers : Clone(p, q)
    \/ \E p \in Producers : DropSender(p)
    \/ DropReceiver
    \/ \E p \in Producers : SendStart(p)
    \/ \E p \in Producers : PushLoadHead(p)
    \/ \E p \in Producers : PushCheckFlag(p)
    \/ \E p \in Producers : PushLoadTail(p)
    \/ \E p \in Producers : PushCAS(p)
    \/ \E p \in Producers : PushWrite(p)
    \/ \E p \in Producers : PushPublish(p)
    \/ \E p \in Producers : SendReprobe(p)
    \/ \E mode \in {"recv", "try_recv"} : RecvStart(mode)
    \/ PopCheckFlag
    \/ PopRead
    \/ PopClear
    \/ PopInc
    \/ RecvProbe

Spec == Init /\ [][Next]_vars

SpecLong == InitLong /\ [][Next]_vars

\* ------------------------------------------------- the consumer's recv loop
\* One step of a send call in progress on producer thread p.
ProducerStep(p) ==
    \/ PushLoadHead(p)
    \/ PushCheckFlag(p)
    \/ PushLoadTail(p)
    \/ PushCAS(p)
    \/ PushWrite(p)
    \/ PushPublish(p)
    \/ SendReprobe(p)

\* One step of the consumer thread of the example, which keeps the Receiver
\* and calls recv in a loop (while let Ok(v) = rx.recv()).
ConsumerStep ==
    \/ RecvStart("recv")
    \/ PopCheckFlag
    \/ PopRead
    \/ PopClear
    \/ PopInc
    \/ RecvProbe

\* The example program: producers clone, send and drop their Senders; the
\* consumer only calls recv and never drops the Receiver.
NextDrain ==
    \/ \E p \in Producers, q \in Producers : Clone(p, q)
    \/ \E p \in Producers : DropSender(p)
    \/ \E p \in Producers : SendStart(p)
    \/ \E p \in Producers : ProducerStep(p)
    \/ ConsumerStep

\* The consumer thread is scheduled again and again (weak fairness of its
\* next step); nothing is assumed of the producers.
SpecDrain == Init /\ [][NextDrain]_vars /\ WF_vars(ConsumerStep)

\* ------------------------------------------------ three concurrent producers
StallProducers == 1 .. (NProducers + 1)

\* A run of NProducers + 1 producer threads picked up after its first three
\* send calls, in the state the interleaving below leaves (capacity 2):
\*   producer 1 wins the CAS for cursor 0 (slot 0) and is preempted;
\*   producer 2 sends <<2,1>> (cursor 1, slot 1) and <<2,2>> (cursor 2: slot 0
\*   is still flagged empty), both Ok;  producer 1 writes <<1,1>> over <<2,2>>
\*   and publishes;  the consumer receives <<1,1>> and <<2,1>>.
\* Every thread holds a Sender, no call is in progress, and five more send
\* calls are ahead.
InitStall ==
    /\ quota = MaxSends + 3
    /\ cap = 2
    /\ head = 3
    /\ tail = 2
    /\ empty = [i \in 0 .. 1 |-> TRUE]
    /\ data = [i \in 0 .. 1 |-> IF i = 0 THEN Val(1, 1) ELSE Val(2, 1)]
    /\ strong = NProducers + 2
    /\ sender = [p \in StallProducers |-> "alive"]
    /\ rxAlive = TRUE
    /\ pc = [p \in StallProducers |-> "idle"]
    /\ current_head = [p \in StallProducers |-> 0]
    /\ nsent = [p \in StallProducers |->
                   IF p = 1 THEN 1 ELSE IF p = 2 THEN 2 ELSE 0]
    /\ rpc = "idle"
    /\ rmode = "recv"
    /\ rval = NoVal
    /\ callClaims = [p \in StallProducers |-> 0]
    /\ callStores = [p \in StallProducers |-> 0]
    /\ late = [p \in StallProducers |-> FALSE]
    /\ lastSend = NoSend
    /\ sentOk = {Val(1, 1), Val(2, 1), Val(2, 2)}
    /\ claimLog = << Val(1, 1), Val(2, 1), Val(2, 2) >>
    /\ destructed = {}
    /\ received = << Val(1, 1), Val(2, 1) >>
    /\ rxRes = NoRecv

\* The producers keep their Senders and send; the consumer keeps calling recv.
NextStall ==
    \/ \E p \in StallProducers : SendStart(p)
    \/ \E p \in StallProducers : ProducerStep(p)
    \/ ConsumerStep

SpecStall == InitStall /\ [][NextStall]_vars

\* --------------------------------------------- one producer, one consumer
\* The benchmark's shape: a single Sender, never cloned, with enough send
\* calls ahead for the cursors to wrap.
InitSolo == InitWith(CursorMod + 2)

NextSolo ==
    \/ \E p \in Producers : DropSender(p)
    \/ DropReceiver
    \/ \E p \in Producers : SendStart(p)
    \/ \E p \in Producers : ProducerStep(p)
    \/ \E mode \in {"recv", "try_recv"} : RecvStart(mode)
    \/ PopCheckFlag
    \/ PopRead
    \/ PopClear
    \/ PopInc
    \/ RecvProbe

SpecSolo == InitSolo /\ [][NextSolo]_vars

TypeOK ==
    /\ cap \in Caps
    /\ head \in 0 .. (CursorMod - 1)
    /\ tail \in 0 .. (CursorMod - 1)
    /\ strong \in 0 .. (NProducers + 1)

\* ================================================================ claims
Range(seq) == { seq[i] : i \in 1 .. Len(seq) }

\* Values whose send returned Ok and that no recv / try_recv has returned.
Unread == sentOk \ Range(received)

LiveSenders == { p \in Threads : sender[p] = "alive" }

\* C1 -- Capacity bound: in every reachable state 0 <= head - tail <= capacity
\* (wrapping difference), and the number of values whose push succeeded and
\* that have not been popped never exceeds the capacity.
C1_CapacityBound ==
    /\ WrappingSub(head, tail) <= cap
    /\ Cardinality(sentOk) - Len(received) <= cap

\* C2 -- No duplication: every value returned by a pop was passed to a push
\* that succeeded, and no successful push is returned by more than one pop.
C2_NoDuplication ==
    \A i \in 1 .. Len(received) :
        /\ received[i] \in sentOk
        /\ \A j \in 1 .. Len(received) : received[j] = received[i] => j = i

\* C3 -- No loss: every value whose push succeeded is returned by a pop when
\* the consumer keeps draining.  Stated on the states in which draining can
\* yield nothing more (no Sender is left, the consumer is between calls and
\* the slot at tail is flagged empty): there no sent value is still unread.
C3_NoLoss ==
    (LiveSenders = {} /\ rpc = "idle" /\ empty[SlotOf(tail)]) => Unread = {}

\* C4 -- Per-producer FIFO: a value a producer sent later is never received
\* before a value the same producer sent earlier.
C4_PerProducerFifo ==
    \A i, j \in 1 .. Len(received) :
        (/\ i < j
         /\ received[i][1] = received[j][1]
         /\ received[i][1] \in Producers)
            => received[i][2] <= received[j][2]

\* C5 -- Terminal disconnect correctness: recv never returns Disconnected
\* while a value whose send returned Ok is still unread.
C5_DisconnectAfterDrain ==
    (rxRes.kind = "Disconnected" /\ rxRes.mode = "recv") => Unread = {}

\* C6 -- After the Receiver has been dropped every send call returns the
\* receiver-gone error: no send call that started after the drop returns Ok.
C6_SendFailsAfterReceiverDrop ==
    lastSend.late => lastSend.kind # "Ok"

\* C7 -- Every send call that returns either enqueued its value and returned
\* Ok (one head claim, the payload store and the flag store), or returned Err
\* with the very value passed in and changed neither head nor any slot.
C7_SendOutcome ==
    /\ lastSend.kind = "Ok" =>
          /\ lastSend.claims = 1
          /\ lastSend.stores = 2
          /\ lastSend.arg \in sentOk
    /\ lastSend.kind = "Err" =>
          /\ lastSend.claims = 0
          /\ lastSend.stores = 0
          /\ lastSend.val = lastSend.arg
          /\ lastSend.arg \notin sentOk

\* C7 witness: a send returned Ok although the Receiver was dropped while
\* the call was in progress (the call started with the Receiver alive).
C7_Witness ==
    lastSend.kind = "Ok" /\ ~lastSend.rx /\ ~lastSend.late

\* C8 -- send returns Err only if the Receiver has been dropped: the Receiver
\* is never alive at the probe that makes a send return SendError.
C8_SendErrOnlyIfReceiverDropped ==
    lastSend.kind = "Err" => ~lastSend.rx

\* C8 witness: a send returned Err on a channel whose Sender was cloned and
\* one of whose Senders was dropped.
C8_Witness ==
    /\ lastSend.kind = "Err"
    /\ \E q \in Producers : q # lastSend.p /\ sender[q] = "dropped"

\* C9 -- recv and try_recv report Disconnected only when no Sender handle is
\* alive at the probe (hence none is in the middle of a send).
C9_DisconnectedOnlyIfNoSender ==
    rxRes.kind = "Disconnected" =>
        /\ rxRes.senders = {}
        /\ \A p \in Producers : pc[p] = "idle"

\* C9 witness: Disconnected was reported after the original Sender and a
\* clone were both dropped.
C9_Witness ==
    /\ rxRes.kind = "Disconnected"
    /\ \A p \in Producers : sender[p] = "dropped"

\* C10 -- try_recv classifies failure exactly: Empty only with a Sender alive
\* at the probe; Disconnected only with no Sender left, no occupied slot and
\* no sent value unread.
C10_TryRecvExact ==
    rxRes.mode = "try_recv" =>
        /\ rxRes.kind = "Empty" => rxRes.senders # {}
        /\ rxRes.kind = "Disconnected" =>
              /\ rxRes.senders = {}
              /\ \A i \in 0 .. (cap - 1) : empty[i]
              /\ Unread = {}

\* C11 -- Drain termination: once every Sender handle has been dropped, a
\* consumer that keeps calling recv is eventually answered Disconnected (so it
\* obtained only finitely many further values and its loop ends).
C11_DrainTerminates ==
    (LiveSenders = {}) ~> (rxRes.kind = "Disconnected")

\* C11 witness: every Sender has been dropped and the consumer is in the
\* middle of popping a value that was left in the ring.
C11_Witness ==
    /\ LiveSenders = {}
    /\ rpc = "pop_inc"
    /\ rval \in sentOk

\* A send call is in progress, no producer holds a claim or is about to win
\* the CAS, the consumer is not inside a successful pop, the slot at head is
\* flagged occupied and the slot at tail is flagged empty.  Every push then
\* finds its slot occupied (and spins or reports Full, after which send
\* retries), every pop finds its slot empty (and recv retries): no step
\* changes head, tail or a flag again.
Stalled ==
    /\ rxAlive
    /\ \E p \in Threads : pc[p] # "idle"
    /\ \A p \in Threads :
          /\ pc[p] \notin {"push_write", "push_publish"}
          /\ pc[p] = "push_cas" => current_head[p] # head
    /\ rpc \in {"idle", "probe", "pop_flag"}
    /\ ~empty[SlotOf(head)]
    /\ empty[SlotOf(tail)]

\* Once stalled, stalled for ever: no step leaves the set of Stalled states.
StalledForEver == [][Stalled => Stalled']_vars

\* C12 -- Eventual progress of a blocked send: with the Receiver alive and
\* calling recv, every send call eventually returns Ok; no deadlock or
\* livelock between the send retry loop, the push spin loop and the consumer.
\* Stated as its safety consequence: no reachable state is Stalled, since a
\* send call in progress in a Stalled state never returns.
C12_SendNeverStalls == ~Stalled

\* C13 -- Single-producer scenario: with one producer sending v1, v2, ...
\* sequentially and one consumer, the values returned by successful recv /
\* try_recv calls are exactly v1, v2, ... in that order, with no gap and no
\* repeat, for every capacity.
C13_SoloInOrder ==
    \A k \in 1 .. Len(received) : received[k] = Val(1, k)

\* C13 witness: capacity 1, the Sender still alive, and the first three
\* receives have returned (the three values sent first).
C13_Witness ==
    /\ cap = 1
    /\ sender[1] = "alive"
    /\ Len(received) = 3

\* The cursors a run with unbounded head and tail would hold: the number of
\* successful head claims and the number of successful pops.
UnboundedHead == Len(claimLog)
UnboundedTail == Len(received)

\* C19 -- Cursor wraparound is benign: in a single-producer run the wrapped
\* cursors select the slots, give the Full decision and deliver the values
\* that unbounded cursors would, also after more than 2^w pushes.
C19_WrapBenign ==
    /\ head = UnboundedHead % CursorMod
    /\ tail = UnboundedTail % CursorMod
    /\ SlotOf(head) = UnboundedHead % cap
    /\ SlotOf(tail) = UnboundedTail % cap
    /\ IsFull(head, tail) <=> (UnboundedHead - UnboundedTail >= cap)
    /\ \A p \in Threads :
          pc[p] \in {"push_flag", "push_tail", "push_cas"}
              => current_head[p] = head
    /\ \A k \in 1 .. Len(received) :
          /\ k <= Len(claimLog)
          /\ received[k] = claimLog[k]

\* C19 witness: more than 2^w values have been pushed, head has wrapped and
\* tail has not yet.
C19_Witness ==
    /\ UnboundedHead > CursorMod
    /\ head < tail

\* C14 -- Exclusive slot ownership: no two producers are both between their
\* successful CAS and their publish on the same slot, and no producer is
\* about to write a slot that is flagged occupied or that the consumer is
\* reading.
C14_ExclusiveSlot ==
    /\ \A i \in 0 .. (cap - 1) : Cardinality(Claimants(i)) <= 1
    /\ \A p \in Threads :
          pc[p] = "push_write" =>
              /\ empty[SlotOf(current_head[p])]
              /\ ~(rpc = "pop_read" /\ SlotOf(tail) = SlotOf(current_head[p]))

\* C15 -- The consumer observes values in increasing slot-cursor order: the
\* k-th successful pop returns the value of the producer whose CAS claimed
\* the k-th cursor value.
C15_CursorOrder ==
    \A k \in 1 .. Len(received) :
        /\ k <= Len(claimLog)
        /\ received[k] = claimLog[k]

\* C16 -- Channel destruction: once the last handle is dropped, every value
\* whose send returned Ok was either delivered to the consumer or destructed
\* with the channel, exactly one of the two.
C16_NoLeak ==
    strong = 0 =>
        \A v \in sentOk : (v \in Range(received)) # (v \in destructed)

\* An iteration of push's loop that loads head = h and runs with every other
\* thread stopped returns: it claims the slot (flag empty) or reports Full.
Decides(h) == empty[SlotOf(h)] \/ IsFull(h, tail)

\* C17 -- push and pop never wait on another thread.  If every other thread
\* stops, a push in progress returns within one further iteration of its
\* loop (the iteration that loads the present head returns); push repeats
\* after finding its slot occupied only if head or that flag has changed
\* since it read them (after a failed CAS head has changed by definition);
\* and inside pop the consumer's next step is always enabled.
C17_NeverWaits ==
    /\ \A p \in Threads : pc[p] # "idle" => Decides(head)
    /\ \A p \in Threads :
          (pc[p] = "push_tail" /\ ~IsFull(current_head[p], tail))
              => (head # current_head[p] \/ empty[SlotOf(current_head[p])])
    /\ \A p \in Threads :
          pc[p] \notin {"idle", "send_full"} => ENABLED ProducerStep(p)
    /\ rpc \in {"pop_read", "pop_clear", "pop_inc"}
          => ENABLED (PopRead \/ PopClear \/ PopInc)

\* C17 witness: a push loaded a head that another producer then claimed and
\* published; it found the slot occupied, the ring is not full, and it is
\* about to repeat its loop.
C17_Witness ==
    \E p \in Threads :
        /\ pc[p] = "push_tail"
        /\ ~IsFull(current_head[p], tail)
        /\ head # current_head[p]

\* C18 -- push reports Full only when the buffer is genuinely full: at the
\* step in which push reads tail and returns Err(value), the true cursors
\* satisfy head - tail >= capacity.
C18_FullOnlyIfFull ==
    [][ \A p \in Threads :
          (pc[p] = "push_tail" /\ pc'[p] = "send_full")
              => WrappingSub(head, tail) >= cap ]_vars

\* C20 -- The number of successful pops never exceeds the number of
\* successful head claims; head changes only by +1 in the CAS of a push and
\* tail only by +1 at the end of a pop that found its slot occupied; a push
\* returning Full and a pop returning None leave head, tail and every flag
\* unchanged.
C20_CursorMoves ==
    /\ [](UnboundedTail <= UnboundedHead)
    /\ [][ /\ head' # head =>
                /\ head' = WrappingAdd(head, 1)
                /\ \E p \in Threads :
                      pc[p] = "push_cas" /\ pc'[p] = "push_write"
           /\ tail' # tail =>
                /\ tail' = WrappingAdd(tail, 1)
                /\ rpc = "pop_inc"
                /\ Len(received') = Len(received) + 1
           /\ (\E p \in Threads :
                  pc[p] = "push_tail" /\ pc'[p] = "send_full")
                => UNCHANGED << head, tail, empty >>
           /\ (rpc # "probe" /\ rpc' = "probe")
                => UNCHANGED << head, tail, empty >> ]_vars

\* C20 witness: a push has just reported Full after a pop had returned None.
C20_Witness ==
    /\ \E p \in Threads : pc[p] = "send_full"
    /\ rpc = "probe"

====
